---------------------------- MODULE Spec2Model ----------------------------
(***************************************************************************)
(* Model of core/src/math_utils.rs (lyon): the point ordering is_below,    *)
(* line_intersection, segment_intersection (f32 and integer variants) and  *)
(* line_horizontal_intersection (f32 and integer variants).                *)
(*                                                                         *)
(* Every function of the file is pure.  A behaviour draws the arguments of *)
(* one call in its initial state and one action applies the function and   *)
(* stores what it returns in ret.                                          *)
(*                                                                         *)
(* f32 values are modelled bit-exactly for finite, normal numbers: a value *)
(* is a record [m, e] standing for m * 2^e with 2^23 <= |m| < 2^24 (or     *)
(* m = 0, e = 0), and every operation rounds to nearest, ties to even, as  *)
(* IEEE-754 binary32 does.  Infinities, NaN, subnormals and the sign of    *)
(* zero are outside the model.                                             *)
(***************************************************************************)
EXTENDS Integers, Sequences, FiniteSets

VARIABLES pc, a1, b1, a2, b2, sy, unit, chk, ret

vars == <<pc, a1, b1, a2, b2, sy, unit, chk, ret>>

(***************************************************************************)
(* Bounds of the model.                                                    *)
(***************************************************************************)
\* Segment and line end points are drawn from the grid (0..MaxX) x (0..MaxY).
MaxX == 3

MaxY == 2

\* The points ordered by is_below have coordinates in -MaxOrd..MaxOrd.
MaxOrd == 1

\* The i32 arguments of the scanline functions are drawn from
\* -1..MaxScan and the two ends of the i32 range.
MaxScan == 2

(***************************************************************************)
(* f32 arithmetic.                                                         *)
(***************************************************************************)
F32Zero == [m |-> 0, e |-> 0]

MANT_LO == 2^23

MANT_HI == 2^24

Sgn(i) == IF i > 0 THEN 1 ELSE IF i < 0 THEN -1 ELSE 0

Abs(i) == IF i < 0 THEN -i ELSE i

\* M * 2^e, 0 < M < 2^24, brought to the normal form (exact).
RECURSIVE NormLeft(_, _)
NormLeft(M, e) ==
    IF M < MANT_LO THEN NormLeft(2 * M, e - 1) ELSE [m |-> M, e |-> e]

\* M * 2^e, M >= 2^24, with the bits already shifted out summarised by the
\* guard bit g (the last one) and the sticky flag s (any earlier one):
\* round to nearest, ties to even.
RECURSIVE RoundShift(_, _, _, _)
RoundShift(M, e, g, s) ==
    IF M >= MANT_HI
    THEN RoundShift(M \div 2, e + 1, M % 2, (g = 1) \/ s)
    ELSE LET up == (g = 1) /\ (s \/ (M % 2 = 1))
             R  == IF up THEN M + 1 ELSE M
         IN  IF R = MANT_HI THEN [m |-> MANT_LO, e |-> e + 1]
                            ELSE [m |-> R, e |-> e]

\* sign * M * 2^e rounded to f32.  M < 2^31; when the value is inexact its
\* lowest bit is a sticky bit and M >= 2^26.
F32Round(sign, M, e) ==
    IF M = 0 \/ sign = 0 THEN F32Zero
    ELSE LET r == IF M < MANT_HI THEN NormLeft(M, e)
                                 ELSE RoundShift(M, e, 0, FALSE)
         IN  [m |-> sign * r.m, e |-> r.e]

\* v shifted right by d bits, the bits lost or-ed into the lowest bit.
ShiftRightJam(v, d) ==
    IF d >= 30 THEN (IF v = 0 THEN 0 ELSE 1)
    ELSE LET q == v \div (2^d)
         IN  IF v % (2^d) # 0 /\ q % 2 = 0 THEN q + 1 ELSE q

FNeg(a) == [m |-> -a.m, e |-> a.e]

FAbs(a) == [m |-> Abs(a.m), e |-> a.e]

\* a + b: the operand of the smaller exponent is aligned with three extra
\* bits (guard, round, sticky), the sum is rounded once.
FAdd(a, b) ==
    IF a.m = 0 THEN b
    ELSE IF b.m = 0 THEN a
    ELSE LET x == IF a.e >= b.e THEN a ELSE b
             y == IF a.e >= b.e THEN b ELSE a
             X == Abs(x.m) * 8
             Y == ShiftRightJam(Abs(y.m) * 8, x.e - y.e)
             S == Sgn(x.m) * X + Sgn(y.m) * Y
         IN  F32Round(Sgn(S), Abs(S), x.e - 3)

FSub(a, b) == FAdd(a, FNeg(b))

\* a * b: the 48-bit product of the two 24-bit significands is formed from
\* 12-bit halves, cut to 30 bits plus sticky, and rounded once.
FMul(a, b) ==
    IF a.m = 0 \/ b.m = 0 THEN F32Zero
    ELSE LET A   == Abs(a.m)
             B   == Abs(b.m)
             ah  == A \div 4096
             al  == A % 4096
             bh  == B \div 4096
             bl  == B % 4096
             mid == ah * bl + al * bh
             los == (mid % 4096) * 4096 + al * bl
             lo  == los % MANT_HI
             hi  == ah * bh + (mid \div 4096) + (los \div MANT_HI)
             top == hi * 64 + (lo \div (2^18))
             S   == IF lo % (2^18) # 0 /\ top % 2 = 0 THEN top + 1 ELSE top
         IN  F32Round(Sgn(a.m) * Sgn(b.m), S, a.e + b.e + 18)

\* The quotient bits of r / d, n more of them appended to q (r < d).
RECURSIVE LongDiv(_, _, _, _)
LongDiv(q, r, d, n) ==
    IF n = 0 THEN <<q, r>>
    ELSE IF 2 * r >= d THEN LongDiv(2 * q + 1, 2 * r - d, d, n - 1)
                       ELSE LongDiv(2 * q, 2 * r, d, n - 1)

\* a / b, b # 0: 26 fractional quotient bits plus sticky, rounded once.
FDiv(a, b) ==
    IF a.m = 0 THEN F32Zero
    ELSE LET A  == Abs(a.m)
             B  == Abs(b.m)
             qr == LongDiv(A \div B, A % B, B, 26)
             S  == IF qr[2] # 0 /\ qr[1] % 2 = 0 THEN qr[1] + 1 ELSE qr[1]
         IN  F32Round(Sgn(a.m) * Sgn(b.m), S, a.e - b.e - 26)

\* a < b
FLt(a, b) ==
    IF Sgn(a.m) # Sgn(b.m) THEN Sgn(a.m) < Sgn(b.m)
    ELSE IF a.m = 0 THEN FALSE
    ELSE IF a.m > 0 THEN a.e < b.e \/ (a.e = b.e /\ a.m < b.m)
    ELSE a.e > b.e \/ (a.e = b.e /\ a.m < b.m)

FLe(a, b) == a = b \/ FLt(a, b)

FMax(a, b) == IF FLt(a, b) THEN b ELSE a

\* `i as f32` for an integer i, and i * 2^k (k the exponent of the unit the
\* coordinates are given in).
F32Scaled(i, k) ==
    IF i = 0 THEN F32Zero
    ELSE IF i = -(2^30) - (2^30) THEN [m |-> -MANT_LO, e |-> 8 + k]
    ELSE F32Round(Sgn(i), Abs(i), k)

F32(i) == F32Scaled(i, 0)

\* `f as i32`: truncation toward zero, saturating at the i32 range.
F32ToI32(f) ==
    IF f.m = 0 \/ f.e < -30 THEN 0
    ELSE IF f.e < 0 THEN Sgn(f.m) * (Abs(f.m) \div (2^(-f.e)))
    ELSE IF f.e > 7 THEN (IF f.m > 0 THEN (2^30 - 1) + 2^30 ELSE -(2^30) - (2^30))
    ELSE f.m * (2^f.e)

(***************************************************************************)
(* i32 and i64 arithmetic.  The model checker's own integers are 32 bits   *)
(* wide, so a wide value is a sign and a magnitude, the magnitude a        *)
(* sequence of base-2^15 digits, lowest first, with no leading zero digit. *)
(***************************************************************************)
LIMB == 2^15

I32_MAX == (2^30 - 1) + 2^30

I32_MIN == -(2^30) - (2^30)

RECURSIVE NatOf(_)
NatOf(n) == IF n = 0 THEN <<>> ELSE <<n % LIMB>> \o NatOf(n \div LIMB)

RECURSIVE NatStrip(_)
NatStrip(a) ==
    IF a # <<>> /\ a[Len(a)] = 0 THEN NatStrip(SubSeq(a, 1, Len(a) - 1)) ELSE a

RECURSIVE NatAddC(_, _, _)
NatAddC(a, b, c) ==
    IF a = <<>> /\ b = <<>> THEN (IF c = 0 THEN <<>> ELSE <<c>>)
    ELSE LET x == IF a = <<>> THEN 0 ELSE Head(a)
             y == IF b = <<>> THEN 0 ELSE Head(b)
             t == x + y + c
         IN  <<t % LIMB>> \o NatAddC(IF a = <<>> THEN a ELSE Tail(a),
                                     IF b = <<>> THEN b ELSE Tail(b),
                                     t \div LIMB)

NatAdd(a, b) == NatAddC(a, b, 0)

\* a - b for a >= b, before the leading zeros are stripped.
RECURSIVE NatSubB(_, _, _)
NatSubB(a, b, c) ==
    IF a = <<>> THEN <<>>
    ELSE LET y == IF b = <<>> THEN 0 ELSE Head(b)
             t == Head(a) - y - c
         IN  <<IF t < 0 THEN t + LIMB ELSE t>>
             \o NatSubB(Tail(a), IF b = <<>> THEN b ELSE Tail(b),
                        IF t < 0 THEN 1 ELSE 0)

NatSub(a, b) == NatStrip(NatSubB(a, b, 0))

\* a < b, comparing from digit i down.
RECURSIVE NatLtFrom(_, _, _)
NatLtFrom(a, b, i) ==
    IF i = 0 THEN FALSE
    ELSE IF a[i] # b[i] THEN a[i] < b[i]
    ELSE NatLtFrom(a, b, i - 1)

NatLt(a, b) ==
    IF Len(a) # Len(b) THEN Len(a) < Len(b) ELSE NatLtFrom(a, b, Len(a))

RECURSIVE NatMulLimb(_, _, _)
NatMulLimb(a, d, c) ==
    IF a = <<>> THEN (IF c = 0 THEN <<>> ELSE <<c>>)
    ELSE LET t == Head(a) * d + c
         IN  <<t % LIMB>> \o NatMulLimb(Tail(a), d, t \div LIMB)

RECURSIVE NatMul(_, _)
NatMul(a, b) ==
    IF a = <<>> \/ b = <<>> THEN <<>>
    ELSE LET rest == NatMul(a, Tail(b))
         IN  NatAdd(NatStrip(NatMulLimb(a, Head(b), 0)),
                    IF rest = <<>> THEN rest ELSE <<0>> \o rest)

\* The largest q = base + (a sum of distinct powers of two up to 2^k) with
\* q * d <= r: one digit of a quotient, found from its highest bit down.
RECURSIVE QuotDigit(_, _, _, _)
QuotDigit(r, d, base, k) ==
    IF k < 0 THEN base
    ELSE LET try == base + 2^k
         IN  IF NatLt(r, NatStrip(NatMulLimb(d, try, 0)))
             THEN QuotDigit(r, d, base, k - 1)
             ELSE QuotDigit(r, d, try, k - 1)

\* Long division of the digits i .. Len(n) of n by d, d # 0:
\* <<quotient, remainder>>.
RECURSIVE NatDivFrom(_, _, _)
NatDivFrom(n, d, i) ==
    IF i > Len(n) THEN <<(<<>>), (<<>>)>>
    ELSE LET up == NatDivFrom(n, d, i + 1)
             r  == NatStrip(<<n[i]>> \o up[2])
             q  == QuotDigit(r, d, 0, 14)
         IN  <<NatStrip(<<q>> \o up[1]),
               NatSub(r, NatStrip(NatMulLimb(d, q, 0)))>>

NatDivMod(n, d) == NatDivFrom(n, d, 1)

Wide(neg, mag) == [neg |-> neg /\ mag # <<>>, mag |-> mag]

\* `i as i64`
WideOf(i) ==
    IF i = I32_MIN THEN Wide(TRUE, <<0, 0, 2>>) ELSE Wide(i < 0, NatOf(Abs(i)))

WideNeg(a) == Wide(~a.neg, a.mag)

WideAdd(a, b) ==
    IF a.neg = b.neg THEN Wide(a.neg, NatAdd(a.mag, b.mag))
    ELSE IF NatLt(a.mag, b.mag) THEN Wide(b.neg, NatSub(b.mag, a.mag))
    ELSE Wide(a.neg, NatSub(a.mag, b.mag))

WideSub(a, b) == WideAdd(a, WideNeg(b))

WideMul(a, b) == Wide(a.neg # b.neg, NatMul(a.mag, b.mag))

\* Division truncating toward zero, b # 0.
WideDiv(a, b) == Wide(a.neg # b.neg, NatDivMod(a.mag, b.mag)[1])

\* Whether a is in the i32 range.
InI32(a) ==
    IF a.neg THEN ~NatLt(<<0, 0, 2>>, a.mag) ELSE NatLt(a.mag, <<0, 0, 2>>)

\* `a as i32`: the low 32 bits, as a two's complement number.
WideToI32(a) ==
    LET low == NatDivMod(a.mag, <<0, 0, 4>>)[2]
        two == IF a.neg /\ low # <<>> THEN NatSub(<<0, 0, 4>>, low) ELSE low
        d   == [i \in 1 .. 3 |-> IF i <= Len(two) THEN two[i] ELSE 0]
    IN  IF d[3] >= 2 THEN ((d[3] - 4) * (2^30) + d[2] * LIMB) + d[1]
        ELSE (d[3] * (2^30) + d[2] * LIMB) + d[1]

(***************************************************************************)
(* Vec2 (math::Vec2, f32 coordinates) and its operators.                   *)
(***************************************************************************)
vec2(x, y) == [x |-> x, y |-> y]

VSub(a, b) == vec2(FSub(a.x, b.x), FSub(a.y, b.y))

VAdd(a, b) == vec2(FAdd(a.x, b.x), FAdd(a.y, b.y))

VScale(v, t) == vec2(FMul(v.x, t), FMul(v.y, t))

cross(a, b) == FSub(FMul(a.x, b.y), FMul(a.y, b.x))

dot(a, b) == FAdd(FMul(a.x, b.x), FMul(a.y, b.y))

square_length(a) == FAdd(FMul(a.x, a.x), FMul(a.y, a.y))

\* Option<T>
None == [some |-> FALSE]

Some(v) == [some |-> TRUE, val |-> v]

(***************************************************************************)
(* The f32 literals of the file, as the nearest f32 of each decimal.       *)
(***************************************************************************)
\* 0.000001
EPSILON == [m |-> 8796093, e |-> -43]

\* 0.00001
T_MIN == [m |-> 10995116, e |-> -40]

\* 0.9999
T_MAX == [m |-> 16775538, e |-> -24]

F32One == [m |-> MANT_LO, e |-> -23]

(***************************************************************************)
(* math_utils.rs                                                           *)
(***************************************************************************)
fuzzy_eq_f32(a, b) == FLe(FAbs(FSub(a, b)), EPSILON)

fuzzy_eq(a, b) == fuzzy_eq_f32(a.x, b.x) /\ fuzzy_eq_f32(a.y, b.y)

\* is_below with the tie on y broken by a.x >= b.x.
is_below_NonStrict(a, b) == FLt(b.y, a.y) \/ (a.y = b.y /\ FLe(b.x, a.x))

is_below(a, b) == FLt(b.y, a.y) \/ (a.y = b.y /\ FLt(b.x, a.x))

is_below_int(a, b) == a.y > b.y \/ (a.y = b.y /\ a.x > b.x)

\* line_intersection with the two terms of the x numerator added.
line_intersection_SignSlip(pa1, pa2, pb1, pb2) ==
    LET det == FSub(FMul(FSub(pa1.x, pa2.x), FSub(pb1.y, pb2.y)),
                    FMul(FSub(pa1.y, pa2.y), FSub(pb1.x, pb2.x)))
        inv_det == FDiv(F32One, det)
        a == FSub(FMul(pa1.x, pa2.y), FMul(pa1.y, pa2.x))
        b == FSub(FMul(pb1.x, pb2.y), FMul(pb1.y, pb2.x))
    IN  IF FLe(FAbs(det), EPSILON) THEN None
        ELSE Some(vec2(
            FMul(FAdd(FMul(a, FSub(pb1.x, pb2.x)), FMul(b, FSub(pa1.x, pa2.x))),
                 inv_det),
            FMul(FSub(FMul(a, FSub(pb1.y, pb2.y)), FMul(b, FSub(pa1.y, pa2.y))),
                 inv_det)))

line_intersection(pa1, pa2, pb1, pb2) ==
    LET det == FSub(FMul(FSub(pa1.x, pa2.x), FSub(pb1.y, pb2.y)),
                    FMul(FSub(pa1.y, pa2.y), FSub(pb1.x, pb2.x)))
        inv_det == FDiv(F32One, det)
        a == FSub(FMul(pa1.x, pa2.y), FMul(pa1.y, pa2.x))
        b == FSub(FMul(pb1.x, pb2.y), FMul(pb1.y, pb2.x))
    IN  IF FLe(FAbs(det), EPSILON) THEN None
        ELSE Some(vec2(
            FMul(FSub(FMul(a, FSub(pb1.x, pb2.x)), FMul(b, FSub(pa1.x, pa2.x))),
                 inv_det),
            FMul(FSub(FMul(a, FSub(pb1.y, pb2.y)), FMul(b, FSub(pa1.y, pa2.y))),
                 inv_det)))

\* The collinear branch: the first of a2, b2, a1, b1 strictly inside the
\* other segment.
CollinearOverlap(pa1, pb1, pa2, pb2, v1, v2) ==
    LET v1_sqr_len  == square_length(v1)
        v1_dot_a2a1 == dot(v1, VSub(pa2, pa1))
        v1_dot_b2a1 == dot(v1, VSub(pb2, pa1))
        v2_sqr_len  == square_length(v2)
        v2_dot_a1a2 == dot(v2, VSub(pa1, pa2))
        v2_dot_b1a2 == dot(v2, VSub(pb1, pa2))
    IN  IF FLt(F32Zero, v1_dot_a2a1) /\ FLt(v1_dot_a2a1, v1_sqr_len)
        THEN Some(pa2)
        ELSE IF FLt(F32Zero, v1_dot_b2a1) /\ FLt(v1_dot_b2a1, v1_sqr_len)
        THEN Some(pb2)
        ELSE IF FLt(F32Zero, v2_dot_a1a2) /\ FLt(v2_dot_a1a2, v2_sqr_len)
        THEN Some(pa1)
        ELSE IF FLt(F32Zero, v2_dot_b1a2) /\ FLt(v2_dot_b1a2, v2_sqr_len)
        THEN Some(pb1)
        ELSE None

\* segment_intersection with the point taken at parameter u of the first
\* segment instead of t.
segment_intersection_PointFromU(pa1, pb1, pa2, pb2) ==
    LET v1 == VSub(pb1, pa1)
        v2 == VSub(pb2, pa2)
        v1_cross_v2    == cross(v1, v2)
        a2_a1_cross_v1 == cross(VSub(pa2, pa1), v1)
        t == FDiv(cross(VSub(pa2, pa1), v2), v1_cross_v2)
        u == FDiv(a2_a1_cross_v1, v1_cross_v2)
    IN  IF fuzzy_eq(v2, vec2(F32Zero, F32Zero)) THEN None
        ELSE IF v1_cross_v2 = F32Zero
        THEN IF a2_a1_cross_v1 = F32Zero
             THEN CollinearOverlap(pa1, pb1, pa2, pb2, v1, v2)
             ELSE None
        ELSE IF FLt(T_MIN, t) /\ FLt(t, T_MAX) /\ FLt(T_MIN, u) /\ FLt(u, T_MAX)
        THEN Some(VAdd(pa1, VScale(v1, u)))
        ELSE None

segment_intersection(pa1, pb1, pa2, pb2) ==
    LET v1 == VSub(pb1, pa1)
        v2 == VSub(pb2, pa2)
        v1_cross_v2    == cross(v1, v2)
        a2_a1_cross_v1 == cross(VSub(pa2, pa1), v1)
        t == FDiv(cross(VSub(pa2, pa1), v2), v1_cross_v2)
        u == FDiv(a2_a1_cross_v1, v1_cross_v2)
    IN  IF fuzzy_eq(v2, vec2(F32Zero, F32Zero)) THEN None
        ELSE IF v1_cross_v2 = F32Zero
        THEN IF a2_a1_cross_v1 = F32Zero
             THEN CollinearOverlap(pa1, pb1, pa2, pb2, v1, v2)
             ELSE None
        ELSE IF FLt(T_MIN, t) /\ FLt(t, T_MAX) /\ FLt(T_MIN, u) /\ FLt(u, T_MAX)
        THEN Some(VAdd(pa1, VScale(v1, t)))
        ELSE None

\* IntVec2
int_vec2(x, y) == [x |-> x, y |-> y]

TruncVec2(p) == int_vec2(F32ToI32(p.x), F32ToI32(p.y))

\* The collinear branch of the integer variant: the same checks, the point
\* cast back to integers.
CollinearOverlapInt(pa1, pb1, pa2, pb2, v1, v2) ==
    LET r == CollinearOverlap(pa1, pb1, pa2, pb2, v1, v2)
    IN  IF r.some THEN Some(TruncVec2(r.val)) ELSE None

segment_intersection_int(ia1, ib1, ia2, ib2) ==
    LET pa1 == vec2(F32(ia1.x), F32(ia1.y))
        pa2 == vec2(F32(ia2.x), F32(ia2.y))
        pb1 == vec2(F32(ib1.x), F32(ib1.y))
        pb2 == vec2(F32(ib2.x), F32(ib2.y))
        v1 == VSub(pb1, pa1)
        v2 == VSub(pb2, pa2)
        v1_cross_v2    == cross(v1, v2)
        a2_a1_cross_v1 == cross(VSub(pa2, pa1), v1)
        t == FDiv(cross(VSub(pa2, pa1), v2), v1_cross_v2)
        u == FDiv(a2_a1_cross_v1, v1_cross_v2)
    IN  IF ia1 = ia2 \/ ia1 = ib1 \/ ib1 = ia2 \/ ib1 = ib2 THEN None
        ELSE IF v2 = vec2(F32Zero, F32Zero) THEN None
        ELSE IF v1_cross_v2 = F32Zero
        THEN IF a2_a1_cross_v1 = F32Zero
             THEN CollinearOverlapInt(pa1, pb1, pa2, pb2, v1, v2)
             ELSE None
        ELSE IF FLt(F32Zero, t) /\ FLt(t, F32One) /\ FLt(F32Zero, u) /\ FLt(u, F32One)
        THEN Some(TruncVec2(VAdd(pa1, VScale(v1, t))))
        ELSE None

(***************************************************************************)
(* The calls.                                                              *)
(***************************************************************************)
\* An integer point of the state as a Vec2, in units of 2^unit.
ToVec2(p) == vec2(F32Scaled(p.x, unit), F32Scaled(p.y, unit))

Grid == {[x |-> i, y |-> j] : i \in 0 .. MaxX, j \in 0 .. MaxY}

\* A coordinate large enough for a crossing parameter to fall between
\* 0.9999 and 1 (or between 0 and 0.00001).
Far == 100 * 1000

FarPoints == {[x |-> Far, y |-> j] : j \in 0 .. MaxY}

\* Coordinates just above 2^12: their products are above 2^24 and are
\* rounded in f32 (4099 * 4097 = 16793603 becomes 16793604), so that the
\* cross products the code tests against 0.0 differ from the exact ones.
Big == 2^12 + 1

BigPoints ==
    {[x |-> Big + 1, y |-> Big], [x |-> Big + 2, y |-> Big],
     [x |-> Big + 2, y |-> Big + 1]}

Origin == [x |-> 0, y |-> 0]

\* Two segments with end points on the grid or among the big points; the
\* first one may instead have one end point far away.
InitSegments ==
    /\ pc = "init"
    /\ a1 \in Grid \cup FarPoints
    /\ b1 \in IF a1 \in Grid THEN Grid \cup FarPoints \cup BigPoints ELSE Grid
    /\ a2 \in Grid \cup BigPoints
    /\ b2 \in Grid \cup BigPoints
    /\ sy = 0
    /\ unit = 0
    /\ chk = FALSE
    /\ ret = None

CallSegmentIntersection ==
    /\ pc = "init"
    /\ pc' = "segment_intersection"
    /\ ret' = segment_intersection(ToVec2(a1), ToVec2(b1), ToVec2(a2), ToVec2(b2))
    /\ UNCHANGED <<a1, b1, a2, b2, sy, unit, chk>>

Next == CallSegmentIntersection

Spec == InitSegments /\ [][Next]_vars

CallSegmentIntersectionInt ==
    /\ pc = "init"
    /\ pc' = "segment_intersection_int"
    /\ ret' = segment_intersection_int(a1, b1, a2, b2)
    /\ UNCHANGED <<a1, b1, a2, b2, sy, unit, chk>>

NextInt == CallSegmentIntersectionInt

SpecInt == InitSegments /\ [][NextInt]_vars

\* Two lines, each through two grid points; the grid is the integer grid
\* or the same grid in units of 2^-10.
FineUnit == 0 - 10

InitLines ==
    /\ pc = "init"
    /\ a1 \in Grid
    /\ b1 \in Grid
    /\ a2 \in Grid
    /\ b2 \in Grid
    /\ sy = 0
    /\ unit \in {0, FineUnit}
    /\ chk = FALSE
    /\ ret = None

\* line_intersection(a1, a2, b1, b2): the line through a1 and a2 against the
\* line through b1 and b2.
CallLineIntersection ==
    /\ pc = "init"
    /\ pc' = "line_intersection"
    /\ ret' = line_intersection(ToVec2(a1), ToVec2(a2), ToVec2(b1), ToVec2(b2))
    /\ UNCHANGED <<a1, b1, a2, b2, sy, unit, chk>>

NextLine == CallLineIntersection

SpecLine == InitLines /\ [][NextLine]_vars

\* Three points a1, b1, a2 to be ordered, on the integer grid or on the
\* grid of halves.
OrdPoints == {[x |-> i, y |-> j] : i \in -MaxOrd .. MaxOrd, j \in -MaxOrd .. MaxOrd}

HalfUnit == 0 - 1

InitOrder ==
    /\ pc = "init"
    /\ a1 \in OrdPoints
    /\ b1 \in OrdPoints
    /\ a2 \in OrdPoints
    /\ b2 = Origin
    /\ sy = 0
    /\ unit \in {0, HalfUnit}
    /\ chk = FALSE
    /\ ret = None

\* The points of the state by name, and the results of is_below and of
\* is_below_int on every ordered pair of them.
PointNames == {"a1", "b1", "a2"}

PointOf(n) == IF n = "a1" THEN a1 ELSE IF n = "b1" THEN b1 ELSE a2

IsBelowVec2(p, q) == is_below(ToVec2(p), ToVec2(q))

BelowTable ==
    [p \in PointNames \X PointNames |->
        IsBelowVec2(PointOf(p[1]), PointOf(p[2]))]

BelowTableInt ==
    [p \in PointNames \X PointNames |->
        is_below_int(PointOf(p[1]), PointOf(p[2]))]

CallIsBelow ==
    /\ pc = "init"
    /\ pc' = "is_below"
    /\ ret' = BelowTable
    /\ UNCHANGED <<a1, b1, a2, b2, sy, unit, chk>>

CallIsBelowInt ==
    /\ pc = "init"
    /\ unit = 0
    /\ pc' = "is_below_int"
    /\ ret' = BelowTableInt
    /\ UNCHANGED <<a1, b1, a2, b2, sy, unit, chk>>

NextOrder == CallIsBelow \/ CallIsBelowInt

SpecOrder == InitOrder /\ [][NextOrder]_vars

(***************************************************************************)
(* line_horizontal_intersection and its integer variant.                   *)
(***************************************************************************)
line_horizontal_intersection(a, b, y) ==
    LET vx == FSub(b.x, a.x)
        vy == FSub(b.y, a.y)
    IN  IF vy = F32Zero THEN FMax(a.x, b.x)
        ELSE FAdd(a.x, FDiv(FMul(FSub(y, a.y), vx), vy))

\* The outcome of an i32 computation: a value, or the panic `attempt to
\* subtract with overflow` of a build with overflow checks.
Ok(v) == [panic |-> FALSE, val |-> v]

Panic == [panic |-> TRUE]

\* x - y in i32.  When the difference leaves the i32 range a build with
\* overflow checks (checks) panics and a build without them wraps.
I32Sub(x, y, checks) ==
    LET d == WideSub(WideOf(x), WideOf(y))
    IN  IF InI32(d) \/ ~checks THEN Ok(WideToI32(d)) ELSE Panic

line_horizontal_intersection_int(a, b, y, checks) ==
    LET vx == I32Sub(b.x, a.x, checks)
        vy == I32Sub(b.y, a.y, checks)
        dy == I32Sub(y, a.y, checks)
    IN  IF vx.panic \/ vy.panic THEN Panic
        ELSE IF vy.val = 0 THEN Ok(IF a.x > b.x THEN a.x ELSE b.x)
        ELSE IF dy.panic THEN Panic
        ELSE Ok(WideToI32(WideAdd(WideOf(a.x),
                    WideDiv(WideMul(WideOf(dy.val), WideOf(vx.val)),
                            WideOf(vy.val)))))

I32Samples == (-1 .. MaxScan) \cup {I32_MIN, I32_MAX}

ScanPoints == {[x |-> i, y |-> j] : i \in I32Samples, j \in I32Samples}

InitScan ==
    /\ pc = "init"
    /\ a1 \in ScanPoints
    /\ b1 \in ScanPoints
    /\ a2 = Origin
    /\ b2 = Origin
    /\ sy \in I32Samples
    /\ unit = 0
    /\ chk \in BOOLEAN
    /\ ret = None

CallLineHorizontalIntersection ==
    /\ pc = "init"
    /\ pc' = "line_horizontal_intersection"
    /\ ret' = line_horizontal_intersection(ToVec2(a1), ToVec2(b1), F32(sy))
    /\ UNCHANGED <<a1, b1, a2, b2, sy, unit, chk>>

CallLineHorizontalIntersectionInt ==
    /\ pc = "init"
    /\ pc' = "line_horizontal_intersection_int"
    /\ ret' = line_horizontal_intersection_int(a1, b1, sy, chk)
    /\ UNCHANGED <<a1, b1, a2, b2, sy, unit, chk>>

NextScan == CallLineHorizontalIntersection \/ CallLineHorizontalIntersectionInt

SpecScan == InitScan /\ [][NextScan]_vars

(***************************************************************************)
(* Exact geometry of the integer end points, against which the results are *)
(* stated.                                                                 *)
(***************************************************************************)
ISub(p, q) == [x |-> p.x - q.x, y |-> p.y - q.y]

ICross(u, v) == u.x * v.y - u.y * v.x

\* Twice the signed area of the triangle a, b, c: zero iff they are collinear.
Orient(a, b, c) == ICross(ISub(b, a), ISub(c, a))

Between(v, lo, hi) == (lo <= v /\ v <= hi) \/ (hi <= v /\ v <= lo)

\* p is a point of the closed segment [a, b].
OnSeg(p, a, b) ==
    Orient(a, b, p) = 0 /\ Between(p.x, a.x, b.x) /\ Between(p.y, a.y, b.y)

\* p is a point of [a, b] other than a and b.
StrictlyInside(p, a, b) == OnSeg(p, a, b) /\ p # a /\ p # b

OnBoth(p) == OnSeg(p, a1, b1) /\ OnSeg(p, a2, b2)

Ends == {a1, b1, a2, b2}

\* The two segments have a common point.
SegmentsMeet ==
    \/ /\ Sgn(Orient(a2, b2, a1)) * Sgn(Orient(a2, b2, b1)) < 0
       /\ Sgn(Orient(a1, b1, a2)) * Sgn(Orient(a1, b1, b2)) < 0
    \/ \E p \in Ends : OnBoth(p)

AllCollinear == Orient(a1, b1, a2) = 0 /\ Orient(a1, b1, b2) = 0

Parallel == ICross(ISub(b1, a1), ISub(b2, a2)) = 0

\* The only common point of the two segments is an end point of both.
ShareOnlyEndpoint ==
    \E e \in {a1, b1} \cap {a2, b2} : \A p \in Ends : OnBoth(p) => p = e

\* Collinear segments whose common part has positive length.
GenuineOverlap ==
    /\ a1 # b1 /\ a2 # b2 /\ AllCollinear
    /\ \E p \in Ends, q \in Ends : p # q /\ OnBoth(p) /\ OnBoth(q)

AllOnGrid == Ends \subseteq Grid

\* The crossing parameters t = TNum / CrossDen and u = UNum / CrossDen.
CrossDen == ICross(ISub(b1, a1), ISub(b2, a2))

TNum == ICross(ISub(a2, a1), ISub(b2, a2))

UNum == ICross(ISub(a2, a1), ISub(b1, a1))

\* 0 < n / d < 1
StrictFraction(n, d) == (0 < n /\ n < d) \/ (d < n /\ n < 0)

CrossInside ==
    CrossDen # 0 /\ StrictFraction(TNum, CrossDen) /\ StrictFraction(UNum, CrossDen)

\* The crossing point a1 + t * (b1 - a1), each coordinate the f32 nearest
\* to its exact value (end points on the grid).
CrossingPoint ==
    vec2(FDiv(F32(a1.x * CrossDen + TNum * (b1.x - a1.x)), F32(CrossDen)),
         FDiv(F32(a1.y * CrossDen + TNum * (b1.y - a1.y)), F32(CrossDen)))

\* The band in which the code accepts a parameter q, and whether the
\* exact parameter n / d, rounded to f32, is in it.
Band(q) == FLt(T_MIN, q) /\ FLt(q, T_MAX)

InBand(n, d) == Band(FDiv(F32(n), F32(d)))

\* The cross product v1 x v2 as f32 arithmetic gives it: the products are
\* rounded before they are subtracted.
FCrossDen ==
    cross(VSub(ToVec2(b1), ToVec2(a1)), VSub(ToVec2(b2), ToVec2(a2)))

\* 2^k as a digit sequence.
RECURSIVE NatPow2(_)
NatPow2(k) == IF k < 15 THEN <<2^k>> ELSE <<0>> \o NatPow2(k - 15)

\* |f - n / d| <= 1 / 1000000 for an f32 f and wide integers n and d # 0,
\* in exact arithmetic: 10^6 * |m * d - n * 2^k| <= |d| * 2^k, where
\* f = m / 2^k.
WithinMillionth(f, n, d) ==
    LET k    == IF f.e < 0 THEN -f.e ELSE 0
        m    == IF f.e < 0 THEN WideOf(f.m)
                ELSE WideMul(WideOf(f.m), Wide(FALSE, NatPow2(f.e)))
        p    == Wide(FALSE, NatPow2(k))
        diff == WideSub(WideMul(m, d), WideMul(n, p))
    IN  ~NatLt(NatMul(d.mag, p.mag), NatMul(NatOf(1000 * 1000), diff.mag))

\* v is within 1e-6, in both coordinates, of the exact crossing point
\* a1 + (TNum / CrossDen) * (b1 - a1).
NearCrossing(v) ==
    LET d == WideOf(CrossDen)
        t == WideOf(TNum)
    IN  /\ WithinMillionth(v.x, WideAdd(WideMul(WideOf(a1.x), d),
                                        WideMul(t, WideOf(b1.x - a1.x))), d)
        /\ WithinMillionth(v.y, WideAdd(WideMul(WideOf(a1.y), d),
                                        WideMul(t, WideOf(b1.y - a1.y))), d)

(***************************************************************************)
(* Claims on is_below and is_below_int.                                    *)
(***************************************************************************)
OrderDone == pc \in {"is_below", "is_below_int"}

IntBelow(p, q) == p.y > q.y \/ (p.y = q.y /\ p.x > q.x)

\* C1: is_below and is_below_int are irreflexive and transitive, order any
\* two distinct points one way exactly, and a is below b iff a.y > b.y, or
\* a.y = b.y and a.x > b.x.
C1_StrictOrder ==
    OrderDone =>
        /\ \A n \in PointNames : ~ret[<<n, n>>]
        /\ ret[<<"a1", "b1">>] /\ ret[<<"b1", "a2">>] => ret[<<"a1", "a2">>]
        /\ \A n \in PointNames, k \in PointNames :
              /\ PointOf(n) # PointOf(k) => (ret[<<n, k>>] # ret[<<k, n>>])
              /\ ret[<<n, k>>] = IntBelow(PointOf(n), PointOf(k))

\* A chain a1 below b1 below a2 of f32 points with halves for coordinates,
\* the first step decided by x alone.
C1_Witness ==
    /\ pc = "is_below"
    /\ unit = HalfUnit
    /\ a1.y = b1.y
    /\ ret[<<"a1", "b1">>] /\ ret[<<"b1", "a2">>] /\ ret[<<"a1", "a2">>]

(***************************************************************************)
(* Claims on segment_intersection.                                         *)
(***************************************************************************)
SegDone == pc = "segment_intersection"

\* C2 (as claimed): two segments whose only common point is an end point
\* of both yield none.
C2_SharedEndpointIsNone == SegDone /\ ShareOnlyEndpoint => ret = None

\* The candidates of the collinear branch in its fixed order, and whether
\* the i-th lies strictly inside the other segment.
Candidate(i) == <<a2, b2, a1, b1>>[i]

CandidateInside(i) ==
    IF i <= 2 THEN StrictlyInside(Candidate(i), a1, b1)
              ELSE StrictlyInside(Candidate(i), a2, b2)

\* C3 (as claimed): collinear segments with a genuine overlap never yield
\* none; the result is the first of a2, b2, a1, b1 strictly inside the other
\* segment.
C3_OverlapIsReported ==
    SegDone /\ GenuineOverlap =>
        \E i \in 1 .. 4 :
            /\ CandidateInside(i)
            /\ \A j \in 1 .. (i - 1) : ~CandidateInside(j)
            /\ ret = Some(ToVec2(Candidate(i)))

C6_ParallelIsNone ==
    SegDone /\ a1 # b1 /\ a2 # b2 /\ Parallel /\ Orient(a1, b1, a2) # 0
        => ret = None

\* C10 (as claimed): a point is returned only for segments that have a
\* common point, and a returned end point is a point of both segments.
C10_ResultIsCommonPoint ==
    SegDone /\ ret.some =>
        /\ SegmentsMeet
        /\ \A p \in Ends : ret.val = ToVec2(p) => OnBoth(p)

(***************************************************************************)
(* Claims on segment_intersection_int.                                     *)
(***************************************************************************)
\* C5 (as claimed): segment_intersection_int yields none whenever two of
\* its four arguments are the same point.
C5_CoincidentIsNone ==
    pc = "segment_intersection_int"
        /\ (a1 = b1 \/ a1 = a2 \/ a1 = b2 \/ b1 = a2 \/ b1 = b2 \/ a2 = b2)
        => ret = None

(***************************************************************************)
(* Claims on line_intersection.                                            *)
(***************************************************************************)
\* The determinant of line_intersection(a1, a2, b1, b2) in grid units, and
\* the numerators of the point the two lines meet in: (LineNumX / LineDet,
\* LineNumY / LineDet).
LineDet == (a1.x - a2.x) * (b1.y - b2.y) - (a1.y - a2.y) * (b1.x - b2.x)

LineA == a1.x * a2.y - a1.y * a2.x

LineB == b1.x * b2.y - b1.y * b2.x

LineNumX == LineA * (b1.x - b2.x) - LineB * (a1.x - a2.x)

LineNumY == LineA * (b1.y - b2.y) - LineB * (a1.y - a2.y)

\* The point (LineNumX / LineDet, LineNumY / LineDet) is on the line
\* through p and q.
MeetOnLine(p, q) ==
    (q.x - p.x) * (LineNumY - p.y * LineDet)
        - (q.y - p.y) * (LineNumX - p.x * LineDet) = 0

\* |det| <= 0.000001, det being LineDet * 2^(2 * unit).
DetNegligible == FLe(F32Scaled(Abs(LineDet), 2 * unit), EPSILON)

\* 2^-22
REL_TOL == [m |-> MANT_LO, e |-> -45]

\* r is n / LineDet (in units of 2^unit) up to the rounding of f32
\* arithmetic: a relative error of 2^-22.
NearQuotient(r, n) ==
    LET q     == FDiv(F32(n), F32(LineDet))
        exact == IF q.m = 0 THEN q ELSE [m |-> q.m, e |-> q.e + unit]
    IN  FLe(FAbs(FSub(r, exact)), FMul(FAbs(exact), REL_TOL))

ExactScan ==
    WideAdd(WideOf(a1.x),
            WideDiv(WideMul(WideSub(WideOf(sy), WideOf(a1.y)),
                            WideSub(WideOf(b1.x), WideOf(a1.x))),
                    WideSub(WideOf(b1.y), WideOf(a1.y))))

\* C7 (as claimed): for b.y # a.y the integer variant computes ExactScan
\* narrowed to i32 without any intermediate overflow, and the exact value
\* itself when y is between a.y and b.y.
C7_NoIntermediateOverflow ==
    pc = "line_horizontal_intersection_int" /\ a1.y # b1.y =>
        /\ ~ret.panic
        /\ ret.val = WideToI32(ExactScan)
        /\ Between(sy, a1.y, b1.y) => WideOf(ret.val) = ExactScan

IntMax(i, j) == IF i > j THEN i ELSE j

\* C8 (as claimed): on a horizontal segment both variants return
\* max(a.x, b.x) whatever y is; on any other segment they return a.x at
\* y = a.y and b.x at y = b.y.
C8_EndpointValues ==
    /\ pc = "line_horizontal_intersection" =>
          /\ a1.y = b1.y => ret = F32(IntMax(a1.x, b1.x))
          /\ a1.y # b1.y /\ sy = a1.y => ret = F32(a1.x)
          /\ a1.y # b1.y /\ sy = b1.y => ret = F32(b1.x)
    /\ pc = "line_horizontal_intersection_int" =>
          /\ a1.y = b1.y => ret = Ok(IntMax(a1.x, b1.x))
          /\ a1.y # b1.y /\ sy = a1.y => ret = Ok(a1.x)
          /\ a1.y # b1.y /\ sy = b1.y => ret = Ok(b1.x)

=============================================================================
